---- MODULE Spec2Model ----
(***************************************************************************)
(* Model of src/main.py: the fundamental-rights violation screener.        *)
(*                                                                         *)
(* Texts are sequences of lexemes.  A lexeme is one of the fixed headers   *)
(* or messages of main.py, or a single character that one of its regular   *)
(* expressions distinguishes:                                              *)
(*   "VS"   Violation Status:          "vs"  the same in lower case        *)
(*   "VA"   Violated Article(s):       "EXP" Explanation:                  *)
(*   "WHAT" What the person can do next:                                   *)
(*   "Yes" "No" "no"                   the answer words                    *)
(*   "NL" newline, "SP" space, "BS" backslash, "s" "n" "b" "Z" letters,    *)
(*   "x" any other word                                                    *)
(*   "MSGE" No fundamental rights violation detected.                      *)
(*   "MSGW" No fundamental rights violation detected; no immediate action  *)
(*          required.                                                      *)
(***************************************************************************)
EXTENDS Integers, Sequences, FiniteSets, TLC

VARIABLES
    \* process-wide holders, main.py:28-31
    embed_model, index, articles, gemini,
    \* the environment: content of the corpus file
    corpus_file,
    \* one request per worker thread; viaSentinel: init_ai has just returned
    \* through its "already loaded" check
    pc, endpoint, genCalls, genFailed, response, viaSentinel,
    \* history of init_ai
    initRuns, initFailed, started,
    \* retrieval on its own
    top_k, query_embedding, indices, found,
    \* normalize_analysis_text on its own
    normIn, normOut, normTwice, normStage,
    \* screen_scenario after the reasoner call
    reply, analysis_text, has_violation, violations, summary, screenStage

holderVars == <<embed_model, index, articles, gemini, corpus_file>>
threadVars == <<pc, endpoint, genCalls, genFailed, response, viaSentinel,
                initRuns, initFailed, started>>
searchVars == <<top_k, query_embedding, indices, found>>
normVars   == <<normIn, normOut, normTwice, normStage>>
screenVars == <<reply, analysis_text, has_violation, violations, summary, screenStage>>
vars == <<holderVars, threadVars, searchVars, normVars, screenVars>>

\* None where a string or a record is expected
None == "None"

\* a holder is Unset (None) or holds one value
Unset == <<>>
Held(v) == <<v>>
ValueOf(h) == h[1]

\* None where a text is expected
NoText == <<"<None>">>

\* ------------------------------------------------------------------------
\* Bounds
\* ------------------------------------------------------------------------
MaxParts == 3

\* ------------------------------------------------------------------------
\* Text helpers
\* ------------------------------------------------------------------------
Whitespace == {"NL", "SP"}

\* re.I: the lexemes that differ only in case
Fold(tok) == CASE tok = "VS" -> "vs"
               [] tok = "No" -> "no"
               [] OTHER -> tok

Tail_(text, i) == IF i > Len(text) THEN <<>> ELSE SubSeq(text, i, Len(text))
Head_(text, i) == IF i < 1 THEN <<>> ELSE SubSeq(text, 1, i)

\* pat occurs in text at position i
PrefixAt(text, i, pat) ==
    /\ i >= 1
    /\ i + Len(pat) - 1 <= Len(text)
    /\ \A k \in 1..Len(pat) : text[i + k - 1] = pat[k]

\* least element of a non-empty set of integers
Least(S) == CHOOSE m \in S : \A o \in S : m <= o

\* position of the first tok at or after i, Len(text)+1 when there is none
FirstAt(text, i, toks) ==
    Least({j \in i..Len(text) : text[j] \in toks} \cup {Len(text) + 1})

\* str.strip()
RECURSIVE LStrip(_)
LStrip(text) ==
    IF text # <<>> /\ Head(text) \in Whitespace THEN LStrip(Tail(text)) ELSE text

RECURSIVE RStrip(_)
RStrip(text) ==
    IF text # <<>> /\ text[Len(text)] \in Whitespace
    THEN RStrip(SubSeq(text, 1, Len(text) - 1)) ELSE text

Strip(text) == RStrip(LStrip(text))

\* str.split(sep): the parts between the occurrences of sep
RECURSIVE Split(_, _)
Split(text, sep) ==
    LET j == FirstAt(text, 1, {sep})
    IN  IF j > Len(text) THEN <<text>>
        ELSE <<Head_(text, j - 1)>> \o Split(Tail_(text, j + 1), sep)

\* sub in text
Contains(text, tok) == \E i \in 1..Len(text) : text[i] = tok

\* ------------------------------------------------------------------------
\* normalize_analysis_text, main.py:181-213
\* ------------------------------------------------------------------------
\* r"Violation Status:\\s*No\\b" with re.I: in a raw string \\s is a
\* backslash followed by the letter s, and \\b a backslash followed by b
\* position after the run of tok that starts at i
SkipRun(text, i, tok) ==
    Least({j \in i..Len(text) : text[j] # tok} \cup {Len(text) + 1})

StatusNoAt(text, i) ==
    /\ i + 1 <= Len(text)
    /\ Fold(text[i]) = "vs"
    /\ text[i + 1] = "BS"
    /\ LET j == SkipRun(text, i + 2, "s")
       IN  /\ j + 2 <= Len(text)
           /\ Fold(text[j]) = "no"
           /\ text[j + 1] = "BS"
           /\ text[j + 2] = "b"

\* re.search(r"Violation Status:\\s*No\\b", text, re.I), main.py:189
SearchStatusNo(text) == \E i \in 1..Len(text) : StatusNoAt(text, i)

StatusLine == <<"VS", "SP", "No">>

\* re.sub(r"(?i)Violation Status:.*", "Violation Status: No", text, count=1),
\* main.py:191: the first header and the rest of its line
SubStatus(text) ==
    LET i == Least({j \in 1..Len(text) : Fold(text[j]) = "vs"} \cup {Len(text) + 1})
        e == FirstAt(text, i, {"NL"})
    IN  IF i > Len(text) THEN text
        ELSE Head_(text, i - 1) \o StatusLine \o Tail_(text, e)

\* the lookahead (?=\\n\\nWhat the person can do next:|\\Z): backslash n
\* backslash n and the header, or backslash Z
ExplLookahead(text, j) ==
    \/ PrefixAt(text, j, <<"BS", "n", "BS", "n", "WHAT">>)
    \/ PrefixAt(text, j, <<"BS", "Z">>)

\* end (exclusive) of the match of
\* r"(?s)Explanation:\\s*.*?(?=...)" that starts at i, 0 when there is none
ExplMatchEnd(text, i) ==
    IF /\ i + 1 <= Len(text)
       /\ text[i] = "EXP"
       /\ text[i + 1] = "BS"
       /\ \E j \in (i + 2)..(Len(text) + 1) : ExplLookahead(text, j)
    THEN Least({j \in (i + 2)..(Len(text) + 1) : ExplLookahead(text, j)})
    ELSE 0

\* re.search of the Explanation pattern, main.py:194
SearchExpl(text) == \E i \in 1..Len(text) : ExplMatchEnd(text, i) > 0

ExplNote == <<"EXP", "NL", "MSGE">>

\* re.sub of the Explanation pattern, every match, main.py:195-199
RECURSIVE SubExpl(_)
SubExpl(text) ==
    IF ~SearchExpl(text) THEN text
    ELSE LET i == Least({j \in 1..Len(text) : ExplMatchEnd(text, j) > 0})
             e == ExplMatchEnd(text, i)
         IN  Head_(text, i - 1) \o ExplNote \o SubExpl(Tail_(text, e))

\* "\\n\\nExplanation:\nNo fundamental rights violation detected."
\* is backslash n backslash n, the header, a newline and the message
ExplAppend == <<"BS", "n", "BS", "n", "EXP", "NL", "MSGE">>

\* r"(?s)What the person can do next:\\s*.*", main.py:204
WhatAt(text, i) ==
    /\ i + 1 <= Len(text)
    /\ text[i] = "WHAT"
    /\ text[i + 1] = "BS"

SearchWhat(text) == \E i \in 1..Len(text) : WhatAt(text, i)

\* the replacement template "What the person can do next:\\nNo ..." holds
\* backslash n, which re.sub expands to a newline
WhatNote == <<"WHAT", "NL", "MSGW">>

\* re.sub of the What pattern, main.py:205-209: .* runs to the end of text
SubWhat(text) ==
    LET i == Least({j \in 1..Len(text) : WhatAt(text, j)} \cup {Len(text) + 1})
    IN  IF i > Len(text) THEN text ELSE Head_(text, i - 1) \o WhatNote

\* "\\n\\nWhat the person can do next:\\nNo ..." appended as is
WhatAppend == <<"BS", "n", "BS", "n", "WHAT", "BS", "n", "MSGW">>

SetExplanation(text) ==
    IF SearchExpl(text) THEN SubExpl(text) ELSE Strip(text) \o ExplAppend

SetActionNote(text) ==
    IF SearchWhat(text) THEN SubWhat(text) ELSE Strip(text) \o WhatAppend

normalize_analysis_text(text) ==
    IF text = NoText THEN text
    ELSE IF SearchStatusNo(text)
         THEN SetActionNote(SetExplanation(SubStatus(text)))
         ELSE text

\* ------------------------------------------------------------------------
\* Reply texts: up to MaxParts phrases, one after the other
\* ------------------------------------------------------------------------
RECURSIVE TextsOf(_, _)
TextsOf(phrases, n) ==
    IF n = 0 THEN {<<>>}
    ELSE LET shorter == TextsOf(phrases, n - 1)
         IN  shorter \cup {t \o p : t \in shorter, p \in phrases}

NormPhrases ==
    { <<"VS", "SP", "No">>,
      <<"VS", "SP", "Yes">>,
      <<"VS", "BS", "No", "BS", "b">>,
      <<"vs", "BS", "s", "no", "BS", "b">>,
      <<"NL">>,
      <<"EXP", "NL", "x">>,
      <<"EXP", "BS", "s", "x">>,
      <<"WHAT", "NL", "x">>,
      <<"WHAT", "BS", "x">>,
      <<"BS", "n", "BS", "n">>,
      <<"BS", "Z">> }

NormTexts == TextsOf(NormPhrases, MaxParts)

\* ------------------------------------------------------------------------
\* Idle values of the parts a specification does not use
\* ------------------------------------------------------------------------
HoldersUnset ==
    /\ embed_model = Unset
    /\ index = Unset
    /\ articles = Unset
    /\ gemini = Unset

ThreadsIdle ==
    /\ pc = <<>>
    /\ endpoint = <<>>
    /\ genCalls = <<>>
    /\ genFailed = <<>>
    /\ response = <<>>
    /\ viaSentinel = <<>>
    /\ initRuns = 0
    /\ initFailed = 0
    /\ started = 0

SearchIdle ==
    /\ top_k = 0
    /\ query_embedding = 0
    /\ indices = <<>>
    /\ found = <<>>

NormIdle ==
    /\ normIn = NoText
    /\ normOut = NoText
    /\ normTwice = NoText
    /\ normStage = "idle"

ScreenIdle ==
    /\ reply = NoText
    /\ analysis_text = NoText
    /\ has_violation = FALSE
    /\ violations = <<>>
    /\ summary = None
    /\ screenStage = "idle"

\* ------------------------------------------------------------------------
\* The normalizer applied to a reply, and to its own result
\* ------------------------------------------------------------------------
InitNorm ==
    /\ HoldersUnset /\ corpus_file = <<>>
    /\ ThreadsIdle /\ SearchIdle /\ ScreenIdle
    /\ normIn \in NormTexts
    /\ normOut = NoText
    /\ normTwice = NoText
    /\ normStage = "input"

Normalize ==
    /\ normStage = "input"
    /\ normOut' = normalize_analysis_text(normIn)
    /\ normStage' = "once"
    /\ UNCHANGED <<normIn, normTwice, holderVars, threadVars, searchVars, screenVars>>

NormalizeAgain ==
    /\ normStage = "once"
    /\ normTwice' = normalize_analysis_text(normOut)
    /\ normStage' = "twice"
    /\ UNCHANGED <<normIn, normOut, holderVars, threadVars, searchVars, screenVars>>

NextNorm == Normalize \/ NormalizeAgain

SpecNorm == InitNorm /\ [][NextNorm]_vars

\* C3: a reply whose status line reads "Violation Status: No" (any case,
\* optional whitespace after the colon) comes out of the normalizer with the
\* status line exactly "Violation Status: No", the Explanation section equal
\* to the fixed message and the next-steps section equal to its fixed message.
WordLexemes == {"Yes", "No", "no", "s", "n", "b", "Z", "x"}

SkipWhitespace(text, i) ==
    Least({j \in i..Len(text) : text[j] \notin Whitespace} \cup {Len(text) + 1})

\* Violation Status:\s*No
SaysNoAt(text, i) ==
    /\ Fold(text[i]) = "vs"
    /\ LET j == SkipWhitespace(text, i + 1)
       IN  j <= Len(text) /\ Fold(text[j]) = "no"

\* Violation Status:\s*No\b
SaysNoWordAt(text, i) ==
    /\ SaysNoAt(text, i)
    /\ LET j == SkipWhitespace(text, i + 1)
       IN  j = Len(text) \/ text[j + 1] \notin WordLexemes

SectionHeaders == {"VA", "EXP", "WHAT"}

\* the trimmed text between the first header h and the next header of hdrs,
\* empty when h is absent
SpanToNextHeader(text, h, hdrs) ==
    IF ~Contains(text, h) THEN <<>>
    ELSE LET i == FirstAt(text, 1, {h})
             e == FirstAt(text, i + 1, hdrs)
         IN  Strip(SubSeq(text, i + 1, e - 1))

\* the line that starts at the first status header
FirstStatusLine(text) ==
    LET i == FirstAt(text, 1, {"VS"})
        e == FirstAt(text, i, {"NL"})
    IN  SubSeq(text, i, e - 1)

C3_NoReplyCanonical ==
    (normStage # "input" /\ \E i \in 1..Len(normIn) : SaysNoWordAt(normIn, i))
    => /\ Contains(normOut, "VS")
       /\ FirstStatusLine(normOut) = StatusLine
       /\ SpanToNextHeader(normOut, "EXP", SectionHeaders) = <<"MSGE">>
       /\ SpanToNextHeader(normOut, "WHAT", SectionHeaders) = <<"MSGW">>

\* C7: a text without "Violation Status:" followed by optional whitespace and
\* "No" (any case) comes out of the normalizer exactly as it went in.
C7_NoOpOnOtherTexts ==
    (normStage # "input" /\ ~\E i \in 1..Len(normIn) : SaysNoAt(normIn, i))
    => normOut = normIn

\* C8: on a text the normalizer treats as a "No" reply, normalizing the
\* normalized text gives the normalized text again.
C8_Idempotent ==
    (normStage = "twice" /\ SearchStatusNo(normIn)) => normTwice = normOut

\* ------------------------------------------------------------------------
\* screen_scenario from the reasoner call on, main.py:242-296
\* ------------------------------------------------------------------------
ScreenPhrases ==
    { <<"VS", "SP", "Yes">>,
      <<"VS", "SP", "No">>,
      <<"VS", "BS", "No", "BS", "b">>,
      <<"VS">>,
      <<"Yes">>,
      <<"NL">>,
      <<"VA", "SP", "x">>,
      <<"EXP", "SP", "x">>,
      <<"WHAT", "SP", "x">> }

ScreenTexts == TextsOf(ScreenPhrases, MaxParts)

\* "Yes" on any line after the header
HasViolationAnyLine(text) ==
    /\ Contains(text, "VS")
    /\ Contains(Split(text, "VS")[2], "Yes")

\* main.py:252
HasViolation(text) ==
    /\ Contains(text, "VS")
    /\ Contains(Split(Split(text, "VS")[2], "NL")[1], "Yes")

\* main.py:256-258
ArticlesSection(text) ==
    IF Contains(text, "VA")
    THEN Strip(Split(Split(text, "VA")[2], "EXP")[1])
    ELSE <<>>

\* main.py:261-263
ExplanationSection(text) ==
    IF Contains(text, "EXP")
    THEN Strip(Split(Split(text, "EXP")[2], "WHAT")[1])
    ELSE <<>>

\* main.py:266-268
GuidanceSection(text) ==
    IF Contains(text, "WHAT")
    THEN Strip(Split(text, "WHAT")[2])
    ELSE <<>>

\* confidence 0.95, in hundredths
Confidence == 95

\* main.py:270-276
ViolationRecord(text) ==
    [ status      |-> "Violation Detected",
      article     |-> ArticlesSection(text),
      explanation |-> ExplanationSection(text),
      guidance    |-> GuidanceSection(text),
      confidence  |-> Confidence ]

\* main.py:278-284; the fixed strings are one lexeme each
NoViolationRecord ==
    [ status      |-> "No Violation",
      article     |-> <<"N/A">>,
      explanation |-> <<"No fundamental rights violation detected in this scenario.">>,
      guidance    |-> <<"No immediate action required.">>,
      confidence  |-> Confidence ]

\* main.py:251-284
BuildViolations(text, hv) ==
    IF hv THEN <<ViolationRecord(text)>> ELSE <<NoViolationRecord>>

\* every record counted
TotalViolationsAll(vs) == Len(vs)

\* main.py:289
TotalViolations(vs) ==
    Cardinality({i \in 1..Len(vs) : vs[i].status = "Violation Detected"})

\* main.py:288-294
BuildSummary(vs, hv) ==
    [ total_violations |-> TotalViolations(vs),
      risk_level       |-> IF hv THEN "High" ELSE "Low",
      recommendations  |-> << IF hv
                              THEN "Consult with a legal advisor for detailed guidance"
                              ELSE "Continue monitoring the situation" >> ]

InitScreen ==
    /\ HoldersUnset /\ corpus_file = <<>>
    /\ ThreadsIdle /\ SearchIdle /\ NormIdle /\ ScreenIdle

\* the reasoner answers r: main.py:243-245 and 250-296
ScreenRespond ==
    /\ screenStage = "idle"
    /\ \E r \in ScreenTexts :
         LET text == normalize_analysis_text(r)
             hv   == HasViolation(text)
             vs   == BuildViolations(text, hv)
         IN  /\ reply' = r
             /\ analysis_text' = text
             /\ has_violation' = hv
             /\ violations' = vs
             /\ summary' = BuildSummary(vs, hv)
    /\ screenStage' = "responded"
    /\ UNCHANGED <<holderVars, threadVars, searchVars, normVars>>

\* the reasoner call raises: main.py:246-248
ScreenFail ==
    /\ screenStage = "idle"
    /\ screenStage' = "http500"
    /\ UNCHANGED <<reply, analysis_text, has_violation, violations, summary>>
    /\ UNCHANGED <<holderVars, threadVars, searchVars, normVars>>

\* the next request: the handler's locals are fresh
ScreenNext ==
    /\ screenStage \in {"responded", "http500"}
    /\ reply' = NoText
    /\ analysis_text' = NoText
    /\ has_violation' = FALSE
    /\ violations' = <<>>
    /\ summary' = None
    /\ screenStage' = "idle"
    /\ UNCHANGED <<holderVars, threadVars, searchVars, normVars>>

NextScreen == ScreenRespond \/ ScreenFail \/ ScreenNext

SpecScreen == InitScreen /\ [][NextScreen]_vars

\* the first status header of text
FirstStatus(text) == FirstAt(text, 1, {"VS"})

\* "Yes" stands after the first status header, before any of the stops
YesBefore(text, stops) ==
    /\ Contains(text, "VS")
    /\ \E m \in (FirstStatus(text) + 1)..Len(text) :
         /\ text[m] = "Yes"
         /\ \A q \in (FirstStatus(text) + 1)..m : text[q] \notin stops

NoViolationOnly ==
    ~has_violation => violations = <<NoViolationRecord>>

\* C4 as stated: has_violation is true exactly when the text holds
\* "Violation Status:" and the rest of the line after its first occurrence
\* holds "Yes"; when it is false the response is the one fixed record.
C4_RestOfLine ==
    screenStage = "responded"
    => /\ has_violation <=> YesBefore(analysis_text, {"NL"})
       /\ NoViolationOnly

\* C4 amended: the rest of the line is cut at the next "Violation Status:"
\* when there is one on that line.
C4_RestOfLineToNextStatus ==
    screenStage = "responded"
    => /\ has_violation <=> YesBefore(analysis_text, {"NL", "VS"})
       /\ NoViolationOnly

C4_Witness ==
    /\ screenStage = "responded"
    /\ has_violation
    /\ Len(Split(analysis_text, "VS")) > 2
    /\ violations[1].status = "Violation Detected"

\* C5: a successful screen-scenario response has exactly one record,
\* total_violations is 1 with a violation and 0 without, and risk_level is
\* "High" exactly with a violation, "Low" otherwise.
C5_SummaryMatches ==
    screenStage = "responded"
    => /\ Len(violations) = 1
       /\ summary.total_violations = (IF has_violation THEN 1 ELSE 0)
       /\ summary.risk_level = (IF has_violation THEN "High" ELSE "Low")

C5_Witness ==
    /\ screenStage = "responded"
    /\ ~has_violation
    /\ summary.total_violations = 0
    /\ summary.risk_level = "Low"

\* C6: with a violation, each of article, explanation and guidance is the
\* trimmed text between its header and the next section header present in
\* the text (or the end), and empty when its header is absent.
C6_SpansToNextHeader ==
    (screenStage = "responded" /\ has_violation)
    => \E hdrs \in {SectionHeaders, SectionHeaders \cup {"VS"}} :
         /\ violations[1].article = SpanToNextHeader(analysis_text, "VA", hdrs)
         /\ violations[1].explanation = SpanToNextHeader(analysis_text, "EXP", hdrs)
         /\ violations[1].guidance = SpanToNextHeader(analysis_text, "WHAT", hdrs)

\* ------------------------------------------------------------------------
\* Retrieval, main.py:131-134
\* ------------------------------------------------------------------------
MaxCorpus == 3
MaxCoord == 2

\* embeddings are points of a line; the encoder maps a text to its point
Points == 0..MaxCoord

\* the corpus file: article i of n, insertion order
CorporaOf(n) ==
    { [i \in 1..n |-> [article_id |-> i, point |-> f[i]]] : f \in [1..n -> Points] }

Corpora == UNION {CorporaOf(n) : n \in 1..MaxCorpus}

\* embed_model.encode(texts), main.py:53-57
EncodeAll(arts) == [i \in 1..Len(arts) |-> arts[i].point]

\* squared Euclidean distance of IndexFlatL2
Dist(a, b) == (a - b) * (a - b)

Min2(a, b) == IF a < b THEN a ELSE b

\* the m nearest of the rows in rows, the nearest first; rows at the same
\* distance come in either order
RECURSIVE NearestOf(_, _, _, _)
NearestOf(idx, q, rows, m) ==
    IF m = 0 THEN {<<>>}
    ELSE LET closest == {r \in rows : \A o \in rows : Dist(idx[r], q) <= Dist(idx[o], q)}
         IN  UNION { {<<r>> \o rest : rest \in NearestOf(idx, q, rows \ {r}, m - 1)}
                     : r \in closest }

\* index.search(q, k): row labels from 0, the nearest first; -1 fills the
\* places the index has no row for
IndexSearch(idx, q, k) ==
    LET m == Min2(k, Len(idx))
    IN  { [j \in 1..k |-> IF j <= m THEN h[j] - 1 ELSE -1]
          : h \in NearestOf(idx, q, 1..Len(idx), m) }

\* list[i] of Python: a negative i counts from the end
PyItem(list, i) == IF i >= 0 THEN list[i + 1] ELSE list[Len(list) + i + 1]

\* main.py:134
ArticlesAt(arts, labels) == [j \in 1..Len(labels) |-> PyItem(arts, labels[j])]

\* top_k of analyze (the default, main.py:131) and of screen_scenario (main.py:239)
AnalyzeTopK == 3
ScreenTopK == 5

EmbedModelName == "all-MiniLM-L6-v2"

InitSearch ==
    /\ corpus_file \in {Held(c) : c \in Corpora}
    /\ embed_model = Held(EmbedModelName)
    /\ articles = corpus_file
    /\ index = Held(EncodeAll(ValueOf(corpus_file)))
    /\ gemini = Held("models/gemini-2.5-flash")
    /\ ThreadsIdle /\ SearchIdle /\ NormIdle /\ ScreenIdle

search_relevant_articles ==
    /\ top_k = 0
    /\ \E q \in Points, k \in 1..ScreenTopK :
         \E labels \in IndexSearch(ValueOf(index), q, k) :
            /\ top_k' = k
            /\ query_embedding' = q
            /\ indices' = labels
            /\ found' = ArticlesAt(ValueOf(articles), labels)
    /\ UNCHANGED <<holderVars, threadVars, normVars, screenVars>>

SearchNext ==
    /\ top_k > 0
    /\ top_k' = 0
    /\ query_embedding' = 0
    /\ indices' = <<>>
    /\ found' = <<>>
    /\ UNCHANGED <<holderVars, threadVars, normVars, screenVars>>

NextSearch == search_relevant_articles \/ SearchNext

SpecSearch == InitSearch /\ [][NextSearch]_vars

\* C9: retrieval returns exactly min(k, corpus size) articles, each the
\* corpus article at a row the index returned, the nearest first; a corpus
\* smaller than k gives fewer than k records.
C9_ReturnsMinOfKAndCorpus ==
    top_k > 0
    => /\ Len(found) = Min2(top_k, Len(ValueOf(articles)))
       /\ \A j \in 1..Len(found) :
            /\ indices[j] >= 0
            /\ found[j] = ValueOf(articles)[indices[j] + 1]
       /\ \A a, b \in 1..Len(found) :
            a < b => Dist(found[a].point, query_embedding) <= Dist(found[b].point, query_embedding)

\* ------------------------------------------------------------------------
\* The service: worker threads run analyze and screen_scenario, main.py:216-296
\* ------------------------------------------------------------------------
NThreads == 2
MaxRequests == 2

Threads == 1..NThreads

\* main.py:65-70
Preferred ==
    << "models/gemini-2.5-flash", "models/gemini-1.5-flash",
       "models/gemini-1.5-pro", "models/gemini-pro" >>

AllModels == {Preferred[i] : i \in 1..Len(Preferred)} \cup {"models/other"}

\* what list_models may report
ListedEntries ==
    { [name |-> "models/gemini-pro", methods |-> {"generateContent"}],
      [name |-> "models/other",      methods |-> {"generateContent"}],
      [name |-> "models/other",      methods |-> {"countTokens"}] }

Listings ==
    {<<>>} \cup {<<e>> : e \in ListedEntries}
           \cup {<<e, f>> : e \in ListedEntries, f \in ListedEntries}

\* main.py:102: the label holds generate, content, text or chat
GenerateLabel(label) == label \in {"generateContent", "embedContent", "generateText"}

\* main.py:98-104
SupportsGenerate(entry) == \E m \in entry.methods : GenerateLabel(m)

\* main.py:88-107
RECURSIVE Available(_)
Available(listing) ==
    IF listing = <<>> THEN <<>>
    ELSE (IF SupportsGenerate(Head(listing)) THEN <<Head(listing).name>> ELSE <<>>)
         \o Available(Tail(listing))

\* the first preferred name in names, None when there is none
FirstPreferred(names) ==
    IF \E i \in 1..Len(Preferred) : Preferred[i] \in names
    THEN Preferred[Least({i \in 1..Len(Preferred) : Preferred[i] \in names})]
    ELSE None

\* main.py:109-118
FromAvailable(avail) ==
    IF avail = <<>> THEN None
    ELSE IF FirstPreferred({avail[i] : i \in 1..Len(avail)}) # None
         THEN FirstPreferred({avail[i] : i \in 1..Len(avail)})
         ELSE avail[1]

\* main.py:72-120: usable are the names GenerativeModel accepts, listing is
\* what list_models returns, listFails that it raises
SelectModel(usable, listing, listFails) ==
    IF FirstPreferred(usable) # None THEN FirstPreferred(usable)
    ELSE IF listFails THEN None
    ELSE FromAvailable(Available(listing))

\* the corpus file is missing, empty, or holds two articles
SampleCorpus == [i \in 1..2 |-> [article_id |-> i, point |-> IF i = 1 THEN 0 ELSE MaxCoord]]
ServiceFiles == {Unset, Held(<<>>), Held(SampleCorpus)}

NoResponse == [status |-> 0, body |-> "none"]
\* an exception that leaves the handler
ServerError == [status |-> 500, body |-> "Internal Server Error"]
\* HTTPException(status_code=500, detail=str(e))
ReasonerError == [status |-> 500, body |-> "detail"]

TopKOf(ep) == IF ep = "analyze" THEN AnalyzeTopK ELSE ScreenTopK

Init ==
    /\ HoldersUnset
    /\ corpus_file \in ServiceFiles
    /\ pc = [t \in Threads |-> "idle"]
    /\ endpoint = [t \in Threads |-> "analyze"]
    /\ genCalls = [t \in Threads |-> 0]
    /\ genFailed = [t \in Threads |-> FALSE]
    /\ response = [t \in Threads |-> NoResponse]
    /\ viaSentinel = [t \in Threads |-> FALSE]
    /\ initRuns = 0
    /\ initFailed = 0
    /\ started = 0
    /\ SearchIdle /\ NormIdle /\ ScreenIdle

otherVars == <<searchVars, normVars, screenVars>>

\* a request arrives at one of the two endpoints
Arrive(t) ==
    /\ started < MaxRequests
    /\ started' = started + 1
    /\ \E ep \in {"analyze", "screen_scenario"} : endpoint' = [endpoint EXCEPT ![t] = ep]
    /\ pc' = [pc EXCEPT ![t] = "init_ai"]
    /\ genCalls' = [genCalls EXCEPT ![t] = 0]
    /\ genFailed' = [genFailed EXCEPT ![t] = FALSE]
    /\ response' = [response EXCEPT ![t] = NoResponse]
    /\ viaSentinel' = [viaSentinel EXCEPT ![t] = FALSE]
    /\ UNCHANGED <<holderVars, initRuns, initFailed, otherVars>>

StartRequest(t) ==
    /\ pc[t] \in {"idle", "done"}
    /\ Arrive(t)

\* an exception leaves init_ai and the handler
InitRaises(t) ==
    /\ pc' = [pc EXCEPT ![t] = "done"]
    /\ response' = [response EXCEPT ![t] = ServerError]
    /\ initFailed' = initFailed + 1
    /\ UNCHANGED <<endpoint, genCalls, genFailed, viaSentinel, initRuns, started>>

Goto(t, label) ==
    /\ pc' = [pc EXCEPT ![t] = label]
    /\ UNCHANGED <<endpoint, genCalls, genFailed, response, viaSentinel,
                   initRuns, initFailed, started>>

\* main.py:42-43
init_ai(t) ==
    /\ pc[t] = "init_ai"
    /\ IF embed_model # Unset
       THEN /\ pc' = [pc EXCEPT ![t] = "search"]
            /\ viaSentinel' = [viaSentinel EXCEPT ![t] = TRUE]
            /\ UNCHANGED initRuns
       ELSE /\ pc' = [pc EXCEPT ![t] = "load"]
            /\ initRuns' = initRuns + 1
            /\ UNCHANGED viaSentinel
    /\ UNCHANGED <<endpoint, genCalls, genFailed, response, initFailed, started>>
    /\ UNCHANGED <<holderVars, otherVars>>

\* main.py:48-49
LoadArticles(t) ==
    /\ pc[t] = "load"
    /\ IF corpus_file = Unset
       THEN InitRaises(t) /\ UNCHANGED holderVars
       ELSE /\ articles' = corpus_file
            /\ Goto(t, "embed")
            /\ UNCHANGED <<embed_model, index, gemini, corpus_file>>
    /\ UNCHANGED otherVars

\* main.py:52: the encoder loads, or cannot be loaded
LoadEmbedModel(t) ==
    /\ pc[t] = "embed"
    /\ \/ /\ embed_model' = Held(EmbedModelName)
          /\ Goto(t, "encode")
          /\ UNCHANGED <<index, articles, gemini, corpus_file>>
       \/ InitRaises(t) /\ UNCHANGED holderVars
    /\ UNCHANGED otherVars

\* main.py:53-59: embeddings.shape[1] raises on an empty corpus
EncodeArticles(t) ==
    /\ pc[t] = "encode"
    /\ IF Len(ValueOf(articles)) = 0
       THEN InitRaises(t)
       ELSE Goto(t, "index_new")
    /\ UNCHANGED <<holderVars, otherVars>>

\* main.py:60
NewIndex(t) ==
    /\ pc[t] = "index_new"
    /\ index' = Held(<<>>)
    /\ Goto(t, "index_add")
    /\ UNCHANGED <<embed_model, articles, gemini, corpus_file, otherVars>>

\* main.py:61: the rows go to the index the holder has now
IndexAdd(t) ==
    /\ pc[t] = "index_add"
    /\ index' = Held(ValueOf(index) \o EncodeAll(ValueOf(articles)))
    /\ Goto(t, "bind")
    /\ UNCHANGED <<embed_model, articles, gemini, corpus_file, otherVars>>

\* main.py:64-128; list_models is asked only when no preferred name is usable
BindModel(t) ==
    /\ pc[t] = "bind"
    /\ \E usable \in SUBSET AllModels :
         \E listing \in (IF FirstPreferred(usable) # None THEN {<<>>} ELSE Listings),
            listFails \in (IF FirstPreferred(usable) # None THEN {FALSE} ELSE BOOLEAN) :
            LET model_name == SelectModel(usable, listing, listFails)
            IN  IF model_name = None \/ model_name \notin usable
                THEN InitRaises(t) /\ UNCHANGED holderVars
                ELSE /\ gemini' = Held(model_name)
                     /\ Goto(t, "search")
                     /\ UNCHANGED <<embed_model, index, articles, corpus_file>>
    /\ UNCHANGED otherVars

\* every label is a row of arts
InRange(arts, labels) ==
    \A j \in 1..Len(labels) : labels[j] < Len(arts) /\ labels[j] >= 0 - Len(arts)

\* an exception leaves the handler outside its try
HandlerRaises(t) ==
    /\ pc' = [pc EXCEPT ![t] = "done"]
    /\ response' = [response EXCEPT ![t] = ServerError]
    /\ viaSentinel' = [viaSentinel EXCEPT ![t] = FALSE]
    /\ UNCHANGED <<endpoint, genCalls, genFailed, initRuns, initFailed, started>>

\* main.py:219-220 and 239-240: search_relevant_articles, then build_prompt;
\* the matched articles go into the prompt and nowhere else
Search(t) ==
    /\ pc[t] = "search"
    /\ IF embed_model = Unset \/ index = Unset \/ articles = Unset
       THEN HandlerRaises(t)
       ELSE \E q \in Points :
              \E labels \in IndexSearch(ValueOf(index), q, TopKOf(endpoint[t])) :
                 IF InRange(ValueOf(articles), labels)
                 THEN /\ pc' = [pc EXCEPT ![t] = "generate"]
                      /\ viaSentinel' = [viaSentinel EXCEPT ![t] = FALSE]
                      /\ UNCHANGED <<endpoint, genCalls, genFailed, response,
                                     initRuns, initFailed, started>>
                 ELSE HandlerRaises(t)
    /\ UNCHANGED <<holderVars, otherVars>>

\* main.py:222-223 and 243-245: gemini.generate_content(prompt) returns or
\* raises; on an unset gemini the attribute lookup raises before any call
Generate(t) ==
    /\ pc[t] = "generate"
    /\ IF gemini = Unset
       THEN /\ pc' = [pc EXCEPT ![t] = "except"]
            /\ UNCHANGED <<genCalls, genFailed>>
       ELSE /\ genCalls' = [genCalls EXCEPT ![t] = @ + 1]
            /\ \/ /\ pc' = [pc EXCEPT ![t] = "return"]
                  /\ UNCHANGED genFailed
               \/ /\ pc' = [pc EXCEPT ![t] = "except"]
                  /\ genFailed' = [genFailed EXCEPT ![t] = TRUE]
    /\ UNCHANGED <<endpoint, response, viaSentinel, initRuns, initFailed, started>>
    /\ UNCHANGED <<holderVars, otherVars>>

\* a handler that calls the reasoner again
ExceptRetry(t) ==
    /\ pc[t] = "except"
    /\ pc' = [pc EXCEPT ![t] = IF genCalls[t] < 2 THEN "generate" ELSE "done"]
    /\ response' = [response EXCEPT ![t] = IF genCalls[t] < 2 THEN @ ELSE ReasonerError]
    /\ UNCHANGED <<endpoint, genCalls, genFailed, viaSentinel,
                   initRuns, initFailed, started>>
    /\ UNCHANGED <<holderVars, otherVars>>

\* main.py:224-226 and 246-248
Except(t) ==
    /\ pc[t] = "except"
    /\ pc' = [pc EXCEPT ![t] = "done"]
    /\ response' = [response EXCEPT ![t] = ReasonerError]
    /\ UNCHANGED <<endpoint, genCalls, genFailed, viaSentinel,
                   initRuns, initFailed, started>>
    /\ UNCHANGED <<holderVars, otherVars>>

\* main.py:228-231 and 250-296
Return(t) ==
    /\ pc[t] = "return"
    /\ pc' = [pc EXCEPT ![t] = "done"]
    /\ response' = [response EXCEPT ![t] =
                      [status |-> 200,
                       body |-> IF endpoint[t] = "analyze" THEN "analysis" ELSE "violations"]]
    /\ UNCHANGED <<endpoint, genCalls, genFailed, viaSentinel,
                   initRuns, initFailed, started>>
    /\ UNCHANGED <<holderVars, otherVars>>

Step(t) ==
    \/ init_ai(t)
    \/ LoadArticles(t)
    \/ LoadEmbedModel(t)
    \/ EncodeArticles(t)
    \/ NewIndex(t)
    \/ IndexAdd(t)
    \/ BindModel(t)
    \/ Search(t)
    \/ Generate(t)
    \/ Except(t)
    \/ Return(t)

Next == \E t \in Threads : StartRequest(t) \/ Step(t)

Spec == Init /\ [][Next]_vars

\* requests served one after the other
StartRequestAlone(t) ==
    /\ \A u \in Threads : pc[u] \in {"idle", "done"}
    /\ Arrive(t)

NextSequential == \E t \in Threads : StartRequestAlone(t) \/ Step(t)

SpecSequential == Init /\ [][NextSequential]_vars

AllHoldersSet ==
    /\ articles # Unset
    /\ embed_model # Unset
    /\ index # Unset
    /\ gemini # Unset

\* C1: however the first requests interleave, the initialisation sequence
\* runs once (a new run starts only after the one before has failed), and a
\* request that has come out of init_ai finds all four holders set.
C1_SingleInitialisation ==
    /\ initRuns - initFailed <= 1
    /\ \A t \in Threads : pc[t] \in {"search", "generate"} => AllHoldersSet

\* C2: a request calls the reasoner at most once, and when that call fails
\* the request ends with status 500 and the error message, never with a
\* success body.
C2_NoRetryNoPartialResult ==
    \A t \in Threads :
       /\ genCalls[t] <= 1
       /\ genFailed[t] => pc[t] \in {"except", "done"}
       /\ (genFailed[t] /\ pc[t] = "done") => response[t] = ReasonerError

C2_Witness ==
    \E t \in Threads :
       /\ genFailed[t]
       /\ genCalls[t] = 1
       /\ pc[t] = "done"
       /\ response[t] = ReasonerError

\* C10: when init_ai returns through the "already loaded" check, articles,
\* index and gemini are set as well, whatever init_ai calls came before.
C10_SentinelAccurate ==
    \A t \in Threads :
       viaSentinel[t] => (articles # Unset /\ index # Unset /\ gemini # Unset)

====
